---- MODULE Spec2Model ----
(***************************************************************************)
(* Model of generate_answer_sheets.py: the layout engine (compute_layout), *)
(* the sheet renderer (render_sheet), the answer-key decoding and the      *)
(* collation run of main().                                                *)
(*                                                                         *)
(* Lengths are integers in tenths of a millimetre (1 mm = 10).  The only   *)
(* division of compute_layout that is not a floor or a ceiling is the one  *)
(* by cols_used (col_width); every Box coordinate is therefore stored      *)
(* multiplied by the layout's "scale" (= cols_used), which keeps the       *)
(* arithmetic exact.  Floating-point rounding is not modelled.             *)
(*                                                                         *)
(* Characters are integers: 1..26 are 'A'..'Z', 27..52 are 'a'..'z' and    *)
(* 53..62 are '0'..'9'; a string is a sequence of characters.              *)
(***************************************************************************)
EXTENDS Integers, Sequences, FiniteSets, TLC

VARIABLES args, merge_lib, pc, err, per_q, key_tokens, layout,
          fs, tmp_dir_ctx, answer_paths, cover_paths, sid_int

vars == <<args, merge_lib, pc, err, per_q, key_tokens, layout,
          fs, tmp_dir_ctx, answer_paths, cover_paths, sid_int>>

(***************************************************************************)
(* Bounds of the model                                                     *)
(***************************************************************************)
MaxQuestions == 3
MaxColumns == 3
MaxOptions == 2
MaxLabelCount == 30
MaxRunQuestions == 2
MaxKeyLen == 2
MaxCount == 2

(***************************************************************************)
(* Strings                                                                 *)
(***************************************************************************)
UpperChars == 1..26
LowerChars == 27..52
DigitChars == 53..62

Digit(d) == 53 + d

\* str.isdigit() on a non-empty token
isdigit(tok) == Len(tok) > 0 /\ \A i \in 1..Len(tok) : tok[i] \in DigitChars

RECURSIVE int(_)
\* int(tok) for a token of decimal digits
int(tok) ==
    IF Len(tok) = 0 THEN 0
    ELSE 10 * int(SubSeq(tok, 1, Len(tok) - 1)) + (tok[Len(tok)] - 53)

\* str.upper()
upper(tok) ==
    [i \in 1..Len(tok) |-> IF tok[i] \in LowerChars THEN tok[i] - 26 ELSE tok[i]]

\* list(string.ascii_uppercase)
letters == [i \in 1..26 |-> <<i>>]

RECURSIVE LabelsLoop(_, _, _)
\* the while loop of option_labels
LabelsLoop(out, i, n) ==
    IF Len(out) < n
    THEN LabelsLoop(Append(out, letters[(i \div 26) + 1] \o letters[(i % 26) + 1]),
                    i + 1, n)
    ELSE out

RECURSIVE LabelsLoopSingle(_, _, _)
LabelsLoopSingle(out, i, n) ==
    IF Len(out) < n
    THEN LabelsLoopSingle(Append(out, letters[(i % 26) + 1]), i + 1, n)
    ELSE out

option_labels_single(n) ==
    IF n <= 26 THEN SubSeq(letters, 1, n)
    ELSE SubSeq(LabelsLoopSingle(letters, 0, n), 1, n)

option_labels(n) ==
    IF n <= 26 THEN SubSeq(letters, 1, n)
    ELSE SubSeq(LabelsLoop(letters, 0, n), 1, n)

NotFound == 0 - 1

\* list.index(x): position of the first occurrence, NotFound for ValueError
index(list, x) ==
    IF \E i \in 1..Len(list) : list[i] = x
    THEN (CHOOSE i \in 1..Len(list) :
             list[i] = x /\ \A j \in 1..(i - 1) : list[j] # x) - 1
    ELSE NotFound

\* f"{sid_int:03d}" for a non-negative integer
RECURSIVE Decimal(_)
Decimal(n) == IF n < 10 THEN <<Digit(n)>> ELSE Append(Decimal(n \div 10), Digit(n % 10))

RECURSIVE ZeroPad(_, _)
ZeroPad(s, width) == IF Len(s) >= width THEN s ELSE ZeroPad(<<Digit(0)>> \o s, width)

Format03d(n) == ZeroPad(Decimal(n), 3)

(***************************************************************************)
(* Parsing helpers                                                         *)
(***************************************************************************)
\* parse_per_question_counts: counts[i % len(counts)] for i in range(n)
parse_per_question_counts(counts, num_questions) ==
    [i \in 1..num_questions |-> counts[((i - 1) % Len(counts)) + 1]]

parse_answer_key_first(raw, num_questions) ==
    [i \in 1..num_questions |-> raw[1]]

\* parse_answer_key: raw[i % len(raw)] for i in range(n)
parse_answer_key(raw, num_questions) ==
    [i \in 1..num_questions |-> raw[((i - 1) % Len(raw)) + 1]]

(***************************************************************************)
(* Layout engine                                                           *)
(***************************************************************************)
PAPERS == [A4 |-> <<2100, 2970>>, LETTER |-> <<2159, 2794>>]

margin == 120
marker_size == 90
box_gap_y == 40
opt_label_gap == 25
base_question_gap_y == 60
base_col_gap_x == 100
top_reserved == 90 + 60 + 100 + 60 + 100 + 40 + 20
box_top_offset == 80

RECURSIVE SeqMax(_)
\* max(per_q_counts)
SeqMax(s) ==
    IF Len(s) = 1 THEN s[1]
    ELSE LET m == SeqMax(Tail(s)) IN IF s[1] >= m THEN s[1] ELSE m

\* int(math.ceil(a / b)) for a >= 0, b >= 1
CeilDiv(a, b) == (a + b - 1) \div b

Min(a, b) == IF a <= b THEN a ELSE b

Box(q, opt, x, y, w, h) ==
    [q |-> q, opt |-> opt, x_pt |-> x, y_pt |-> y, w_pt |-> w, h_pt |-> h]

RECURSIVE RowCells(_, _, _, _)
\* inner loop over cidx of one row, with its break at q > num_questions
RowCells(r, cidx, cols_used, num_questions) ==
    IF cidx >= cols_used \/ r * cols_used + cidx + 1 > num_questions
    THEN <<>>
    ELSE <<[r |-> r, cidx |-> cidx, q |-> r * cols_used + cidx + 1]>>
         \o RowCells(r, cidx + 1, cols_used, num_questions)

RECURSIVE GridCells(_, _, _, _)
\* outer loop over r in range(rows)
GridCells(r, rows, cols_used, num_questions) ==
    IF r >= rows THEN <<>>
    ELSE RowCells(r, 0, cols_used, num_questions)
         \o GridCells(r + 1, rows, cols_used, num_questions)

RECURSIVE Concat(_)
Concat(ss) == IF Len(ss) = 0 THEN <<>> ELSE ss[1] \o Concat(Tail(ss))

RowsFloor(num_questions, cols_used) == num_questions \div cols_used

\* rows = int(math.ceil(num_questions / cols_used))
Rows(num_questions, cols_used) == CeilDiv(num_questions, cols_used)

\* compute_layout without its title argument, which no computation reads
compute_layout(paper, num_questions, per_q_counts, columns, force_columns, row_gap_mm, col_gap_mm, box_size_mm) ==
    LET W == PAPERS[paper][1]
        H == PAPERS[paper][2]
        box_size == box_size_mm
        question_gap_y == base_question_gap_y + row_gap_mm
        col_gap_x == base_col_gap_x + col_gap_mm
        max_k == SeqMax(per_q_counts)
        usable_top == H - margin
        usable_bottom == margin
        usable_left == margin
        usable_right == W - margin
        content_top == (H - margin) - top_reserved
        available_h == content_top - usable_bottom
        q_block_h == max_k * box_size + (max_k - 1) * box_gap_y + question_gap_y
        rows_fit == available_h \div q_block_h
    IN  IF rows_fit <= 0
        THEN [raised |-> TRUE, rows_fit |-> rows_fit]
        ELSE
        LET cols_used == IF force_columns THEN columns
                         ELSE Min(columns, CeilDiv(num_questions, rows_fit))
            rows == Rows(num_questions, cols_used)
            \* col_width = col_width_num / cols_used
            col_width_num == usable_right - usable_left - (cols_used - 1) * col_gap_x
            cells == GridCells(0, rows, cols_used, num_questions)
            CellBoxes(cell) ==
                LET k == per_q_counts[cell.q]
                    y_row_top == content_top - cell.r * q_block_h
                    box_y_top == y_row_top - box_top_offset
                    \* col_x * cols_used
                    col_x == usable_left * cols_used
                             + cell.cidx * (col_width_num + col_gap_x * cols_used)
                IN  [oi \in 1..k |->
                        Box(cell.q, oi - 1, col_x,
                            (box_y_top - (oi - 1) * (box_size + box_gap_y)) * cols_used,
                            box_size * cols_used, box_size * cols_used)]
        IN  [raised |-> FALSE,
             rows_fit |-> rows_fit,
             cols_used |-> cols_used,
             rows |-> rows,
             layout |->
                [paper |-> paper,
                 page_width_pt |-> W,
                 page_height_pt |-> H,
                 num_questions |-> num_questions,
                 per_question_option_counts |-> per_q_counts,
                 marker |-> [margin_pt |-> margin, size_pt |-> marker_size],
                 scale |-> cols_used,
                 boxes |-> Concat([i \in 1..Len(cells) |-> CellBoxes(cells[i])]),
                 answer_key |-> <<>>]]

NoLayout ==
    [paper |-> "none", page_width_pt |-> 0, page_height_pt |-> 0,
     num_questions |-> 0, per_question_option_counts |-> <<>>,
     marker |-> [margin_pt |-> 0, size_pt |-> 0], scale |-> 1,
     boxes |-> <<>>, answer_key |-> <<>>]

(***************************************************************************)
(* Sheet renderer                                                          *)
(***************************************************************************)
RECURSIVE InsertByOpt(_, _)
InsertByOpt(b, sorted) ==
    IF Len(sorted) = 0 THEN <<b>>
    ELSE IF b.opt < sorted[1].opt THEN <<b>> \o sorted
    ELSE <<sorted[1]>> \o InsertByOpt(b, Tail(sorted))

RECURSIVE SortByOpt(_)
\* list.sort(key=lambda x: x["opt"]), stable
SortByOpt(bxs) ==
    IF Len(bxs) = 0 THEN <<>>
    ELSE InsertByOpt(bxs[Len(bxs)], SortByOpt(SubSeq(bxs, 1, Len(bxs) - 1)))

RECURSIVE SortedSeq(_)
\* sorted(boxes_by_q.keys())
SortedSeq(S) ==
    IF S = {} THEN <<>>
    ELSE LET m == CHOOSE x \in S : \A y \in S : x <= y
         IN  <<m>> \o SortedSeq(S \ {m})

\* boxes_by_q[q] after the per-question sort
BoxesByQ(lay, q) ==
    LET IsQ(b) == b.q = q IN SortByOpt(SelectSeq(lay.boxes, IsQ))

FillAlways(lay, fill_solution, b) == lay.answer_key[b.q] = b.opt

\* the condition of the solid fill of one box
Fill(lay, fill_solution, b) == fill_solution /\ lay.answer_key[b.q] = b.opt

\* the single page drawn by render_sheet: the Student ID stamp, the outlined
\* boxes with their option labels and the solid fills, in drawing order
render_sheet(lay, student_id, fill_solution) ==
    LET qs == SortedSeq({lay.boxes[i].q : i \in 1..Len(lay.boxes)})
        Outlines(q) ==
            LET bxs == BoxesByQ(lay, q)
                labels == option_labels(lay.per_question_option_counts[q])
            IN  [j \in 1..Len(bxs) |->
                    [q |-> q, opt |-> bxs[j].opt, label |-> labels[bxs[j].opt + 1]]]
        Fills(q) ==
            LET bxs == BoxesByQ(lay, q)
                IsFilled(b) == Fill(lay, fill_solution, b)
                filled == SelectSeq(bxs, IsFilled)
            IN  [j \in 1..Len(filled) |-> [q |-> q, opt |-> filled[j].opt]]
    IN  [kind |-> "answer_sheet",
         student_id |-> student_id,
         outlined |-> Concat([i \in 1..Len(qs) |-> Outlines(qs[i])]),
         filled |-> Concat([i \in 1..Len(qs) |-> Fills(qs[i])])]

\* the page compile_cover_pdf copies to out_pdf (one page, by its contract)
cover_page(student_id) ==
    [kind |-> "cover_sheet", student_id |-> student_id,
     outlined |-> <<>>, filled |-> <<>>]

(***************************************************************************)
(* Files                                                                   *)
(***************************************************************************)
Path(dir, name, sid) == [dir |-> dir, name |-> name, sid |-> sid]

SolutionPath == Path("outdir", "answer_sheet_solution.pdf", <<>>)
LayoutJsonPath == Path("outdir", "layout.json", <<>>)
AnswersAllPath == Path("outdir", "answer_sheets_all.pdf", <<>>)
CoversAllPath == Path("outdir", "cover_sheets_all.pdf", <<>>)

WriteFile(files, p, content) == (p :> content) @@ files

Exists(p) == p \in DOMAIN fs

\* shutil.rmtree of the temporary directory
RemoveTree(files) ==
    [p \in {x \in DOMAIN files : x.dir # "tmp"} |-> files[p]]

MergedPagesReversed(files, pdf_paths) ==
    Concat([i \in 1..Len(pdf_paths) |-> files[pdf_paths[Len(pdf_paths) + 1 - i]]])

\* the pages merge_pdfs writes: every page of every reader, in list order
MergedPages(files, pdf_paths) ==
    Concat([i \in 1..Len(pdf_paths) |-> files[pdf_paths[i]]])

(***************************************************************************)
(* The run of main()                                                       *)
(***************************************************************************)
RECURSIVE SeqsUpTo(_, _)
\* all sequences over S of length 0..n
SeqsUpTo(S, n) ==
    IF n = 0 THEN {<<>>}
    ELSE LET shorter == SeqsUpTo(S, n - 1)
         IN  shorter \cup {Append(t, x) : t \in {u \in shorter : Len(u) = n - 1}, x \in S}

\* the answer-key tokens "0", "2", "b" and "C"
KeyTokens == {<<Digit(0)>>, <<Digit(2)>>, <<28>>, <<3>>}

\* --options-per-question patterns and an --options-list
OptionSources ==
    {[list |-> FALSE, counts |-> <<3>>],
     [list |-> FALSE, counts |-> <<2, 3>>],
     [list |-> TRUE, counts |-> <<3, 2>>]}

StudentIdStarts == {1, 9}

\* the argparse defaults of the geometry options
DefaultArgs ==
    [paper |-> "A4", columns |-> 5, force_columns |-> FALSE,
     row_gap_mm |-> 0, col_gap_mm |-> 0, box_size_mm |-> 35,
     num_questions |-> 1,
     options |-> [list |-> FALSE, counts |-> <<2>>],
     answer_key |-> <<<<Digit(0)>>>>,
     student_id_start |-> 1, student_id_count |-> 1,
     cover_tex |-> "None", no_cover |-> FALSE,
     per_student |-> FALSE, keep_temp |-> FALSE]

NoTempDir == [created |-> FALSE, exists |-> FALSE, finalizer |-> FALSE]

RunArgs ==
    {[DefaultArgs EXCEPT !.num_questions = n, !.options = o, !.answer_key = k,
                         !.student_id_start = s, !.student_id_count = c,
                         !.cover_tex = t, !.no_cover = nc,
                         !.per_student = ps, !.keep_temp = kt] :
        n \in 1..MaxRunQuestions, o \in OptionSources,
        k \in SeqsUpTo(KeyTokens, MaxKeyLen),
        s \in StudentIdStarts, c \in 0..MaxCount,
        t \in {"None", "missing", "exists"}, nc \in BOOLEAN,
        ps \in BOOLEAN, kt \in BOOLEAN}

\* the state of main() after parse_args and the two makedirs
Init ==
    /\ args \in RunArgs
    /\ merge_lib \in BOOLEAN
    /\ pc = "parse"
    /\ err = "none"
    /\ per_q = <<>>
    /\ key_tokens = <<>>
    /\ layout = NoLayout
    /\ fs = <<>>
    /\ tmp_dir_ctx = NoTempDir
    /\ answer_paths = <<>>
    /\ cover_paths = <<>>
    /\ sid_int = 0

\* an exception that propagates out of main()
Raise(e) == pc' = "failed" /\ err' = e

do_cover == args.cover_tex # "None" /\ ~args.no_cover

sid == Format03d(sid_int)

RangeEnd == args.student_id_start + args.student_id_count

LoopPcOnce(next) == "merge_answers"

\* the position after the body of the student loop has run for sid_int - 1
LoopPc(next) == IF next < RangeEnd THEN "render_student" ELSE "merge_answers"

\* lines 471-479: the option counts and the answer-key tokens
ParseArgs ==
    /\ pc = "parse"
    /\ UNCHANGED <<args, merge_lib, layout, fs, tmp_dir_ctx, answer_paths, cover_paths, sid_int>>
    /\ IF args.options.list /\ Len(args.options.counts) # args.num_questions
       THEN Raise("ValueError:options-list") /\ UNCHANGED <<per_q, key_tokens>>
       ELSE /\ per_q' = IF args.options.list THEN args.options.counts
                        ELSE parse_per_question_counts(args.options.counts, args.num_questions)
            /\ IF Len(args.answer_key) = 0
               THEN Raise("ZeroDivisionError:parse_answer_key") /\ UNCHANGED key_tokens
               ELSE /\ key_tokens' = parse_answer_key(args.answer_key, args.num_questions)
                    /\ pc' = "compute_layout"
                    /\ UNCHANGED err

\* lines 481-485
ComputeLayout ==
    /\ pc = "compute_layout"
    /\ UNCHANGED <<args, merge_lib, per_q, key_tokens, fs, tmp_dir_ctx, answer_paths, cover_paths, sid_int>>
    /\ LET res == compute_layout(args.paper, args.num_questions, per_q, args.columns, args.force_columns, args.row_gap_mm, args.col_gap_mm, args.box_size_mm)
       IN  IF res.raised
           THEN Raise("SystemExit:Layout too tight.") /\ UNCHANGED layout
           ELSE layout' = res.layout /\ pc' = "resolve_key" /\ UNCHANGED err

\* int(tok) if tok.isdigit() else option_labels(per_q[i]).index(tok.upper())
DecodeToken(tok, count) ==
    IF isdigit(tok) THEN int(tok) ELSE index(option_labels(count), upper(tok))

\* lines 487-490: layout["answer_key"]
ResolveKey ==
    /\ pc = "resolve_key"
    /\ UNCHANGED <<args, merge_lib, per_q, key_tokens, fs, tmp_dir_ctx, answer_paths, cover_paths, sid_int>>
    /\ LET resolved == [i \in 1..Len(key_tokens) |-> DecodeToken(key_tokens[i], per_q[i])]
       IN  IF \E i \in 1..Len(resolved) : resolved[i] = NotFound
           THEN Raise("ValueError:index") /\ UNCHANGED layout
           ELSE /\ layout' = [layout EXCEPT !.answer_key = resolved]
                /\ pc' = "validate_key"
                /\ UNCHANGED err

InRangeInclusive(ans, count) == 0 <= ans /\ ans <= count

\* 0 <= int(ans) < int(per_q[i])
InRange(ans, count) == 0 <= ans /\ ans < count

\* lines 505-508
ValidateKey ==
    /\ pc = "validate_key"
    /\ UNCHANGED <<args, merge_lib, per_q, key_tokens, layout, fs, tmp_dir_ctx, answer_paths, cover_paths, sid_int>>
    /\ IF \E i \in 1..Len(layout.answer_key) : ~InRange(layout.answer_key[i], per_q[i])
       THEN Raise("ValueError:answer-key-out-of-range")
       ELSE pc' = "write_layout" /\ UNCHANGED err

\* lines 510-511
WriteLayoutJson ==
    /\ pc = "write_layout"
    /\ fs' = WriteFile(fs, LayoutJsonPath, <<layout>>)
    /\ pc' = "render_solution"
    /\ UNCHANGED <<args, merge_lib, err, per_q, key_tokens, layout, tmp_dir_ctx, answer_paths, cover_paths, sid_int>>

\* lines 513-522; the write of the document may fail
RenderSolution ==
    /\ pc = "render_solution"
    /\ UNCHANGED <<args, merge_lib, per_q, key_tokens, layout, tmp_dir_ctx, answer_paths, cover_paths, sid_int>>
    /\ \/ /\ fs' = WriteFile(fs, SolutionPath, <<render_sheet(layout, <<>>, TRUE)>>)
          /\ pc' = "check_cover"
          /\ UNCHANGED err
       \/ Raise("OSError:render_sheet") /\ UNCHANGED fs

\* lines 525-528
CheckCoverTex ==
    /\ pc = "check_cover"
    /\ UNCHANGED <<args, merge_lib, per_q, key_tokens, layout, fs, tmp_dir_ctx, answer_paths, cover_paths, sid_int>>
    /\ IF args.cover_tex = "missing"
       THEN Raise("FileNotFoundError:cover-tex")
       ELSE pc' = "mktemp" /\ UNCHANGED err

\* lines 532-538: tempfile.TemporaryDirectory registers a finalizer that
\* removes the directory when the object is collected or the interpreter exits
CreateTempDir ==
    /\ pc = "mktemp"
    /\ tmp_dir_ctx' = [created |-> TRUE, exists |-> TRUE, finalizer |-> TRUE]
    /\ answer_paths' = <<>>
    /\ cover_paths' = <<>>
    /\ sid_int' = args.student_id_start
    /\ pc' = LoopPc(args.student_id_start)
    /\ UNCHANGED <<args, merge_lib, err, per_q, key_tokens, layout, fs>>

AfterRenderPc == IF do_cover THEN "compile_cover" ELSE IF args.per_student THEN "copy" ELSE "next"

SheetNameShared(id) == Path("tmp", "answer_sheet", <<>>)

\* tmp_dir / f"answer_sheet_{sid}.pdf"
SheetName(id) == Path("tmp", "answer_sheet", id)

\* lines 539-552
RenderStudentSheet ==
    /\ pc = "render_student"
    /\ UNCHANGED <<args, merge_lib, per_q, key_tokens, layout, tmp_dir_ctx, cover_paths>>
    /\ \/ /\ fs' = WriteFile(fs, SheetName(sid), <<render_sheet(layout, sid, FALSE)>>)
          /\ answer_paths' = Append(answer_paths, SheetName(sid))
          /\ IF AfterRenderPc = "next"
             THEN sid_int' = sid_int + 1 /\ pc' = LoopPc(sid_int + 1)
             ELSE UNCHANGED sid_int /\ pc' = AfterRenderPc
          /\ UNCHANGED err
       \/ Raise("OSError:render_sheet") /\ UNCHANGED <<fs, answer_paths, sid_int>>

\* lines 555-566
CompileCover ==
    /\ pc = "compile_cover"
    /\ UNCHANGED <<args, merge_lib, per_q, key_tokens, layout, tmp_dir_ctx, answer_paths>>
    /\ \/ /\ fs' = WriteFile(fs, Path("tmp", "cover_sheet", sid), <<cover_page(sid)>>)
          /\ cover_paths' = Append(cover_paths, Path("tmp", "cover_sheet", sid))
          /\ IF args.per_student
             THEN UNCHANGED sid_int /\ pc' = "copy"
             ELSE sid_int' = sid_int + 1 /\ pc' = LoopPc(sid_int + 1)
          /\ UNCHANGED err
       \/ Raise("RuntimeError:compile_cover_pdf") /\ UNCHANGED <<fs, cover_paths, sid_int>>

\* lines 568-572
CopyPerStudent ==
    /\ pc = "copy"
    /\ UNCHANGED <<args, merge_lib, per_q, key_tokens, layout, tmp_dir_ctx, answer_paths, cover_paths>>
    /\ \/ /\ LET withSheet == WriteFile(fs, Path("outdir", "answer_sheet", sid), fs[SheetName(sid)])
             IN  fs' = IF do_cover /\ Len(cover_paths) > 0
                       THEN WriteFile(withSheet, Path("outdir", "cover_sheet", sid), fs[cover_paths[Len(cover_paths)]])
                       ELSE withSheet
          /\ sid_int' = sid_int + 1
          /\ pc' = LoopPc(sid_int + 1)
          /\ UNCHANGED err
       \/ Raise("OSError:copyfile") /\ UNCHANGED <<fs, sid_int>>

\* lines 381-404 as called from lines 575-576
MergeAnswers ==
    /\ pc = "merge_answers"
    /\ UNCHANGED <<args, merge_lib, per_q, key_tokens, layout, tmp_dir_ctx, answer_paths, cover_paths, sid_int>>
    /\ IF Len(answer_paths) = 0
       THEN pc' = "merge_covers" /\ UNCHANGED <<fs, err>>
       ELSE IF ~merge_lib
       THEN Raise("RuntimeError:merge_pdfs:no-merge-library") /\ UNCHANGED fs
       ELSE \/ /\ fs' = WriteFile(fs, AnswersAllPath, MergedPages(fs, answer_paths))
               /\ pc' = "merge_covers"
               /\ UNCHANGED err
            \/ Raise("OSError:merge_pdfs") /\ UNCHANGED fs

\* lines 381-404 as called from lines 577-578
MergeCovers ==
    /\ pc = "merge_covers"
    /\ UNCHANGED <<args, merge_lib, per_q, key_tokens, layout, tmp_dir_ctx, answer_paths, cover_paths, sid_int>>
    /\ IF ~(do_cover /\ Len(cover_paths) > 0)
       THEN pc' = "cleanup" /\ UNCHANGED <<fs, err>>
       ELSE IF ~merge_lib
       THEN Raise("RuntimeError:merge_pdfs:no-merge-library") /\ UNCHANGED fs
       ELSE \/ /\ fs' = WriteFile(fs, CoversAllPath, MergedPages(fs, cover_paths))
               /\ pc' = "cleanup"
               /\ UNCHANGED err
            \/ Raise("OSError:merge_pdfs") /\ UNCHANGED fs

\* lines 580-588: the explicit cleanup(), or its replacement by a no-op
Cleanup ==
    /\ pc = "cleanup"
    /\ UNCHANGED <<args, merge_lib, err, per_q, key_tokens, layout, answer_paths, cover_paths, sid_int>>
    /\ pc' = "returned"
    /\ IF args.keep_temp
       THEN UNCHANGED <<fs, tmp_dir_ctx>>
       ELSE /\ fs' = RemoveTree(fs)
            /\ tmp_dir_ctx' = [tmp_dir_ctx EXCEPT !.exists = FALSE, !.finalizer = FALSE]

FinalizeNever(ctx, files) == [ctx |-> ctx, files |-> files]

\* the finalizer of the TemporaryDirectory object (line 532), run when
\* main() is left: by return or by an uncaught exception
Finalize(ctx, files) ==
    IF ctx.finalizer
    THEN [ctx |-> [ctx EXCEPT !.exists = FALSE, !.finalizer = FALSE],
          files |-> RemoveTree(files)]
    ELSE [ctx |-> ctx, files |-> files]

\* the end of the run (lines 590-591): main() has returned or raised
Exit ==
    /\ pc \in {"returned", "failed"}
    /\ pc' = "exited"
    /\ LET fin == Finalize(tmp_dir_ctx, fs)
       IN  tmp_dir_ctx' = fin.ctx /\ fs' = fin.files
    /\ UNCHANGED <<args, merge_lib, err, per_q, key_tokens, layout, answer_paths, cover_paths, sid_int>>

Next ==
    \/ ParseArgs
    \/ ComputeLayout
    \/ ResolveKey
    \/ ValidateKey
    \/ WriteLayoutJson
    \/ RenderSolution
    \/ CheckCoverTex
    \/ CreateTempDir
    \/ RenderStudentSheet
    \/ CompileCover
    \/ CopyPerStudent
    \/ MergeAnswers
    \/ MergeCovers
    \/ Cleanup
    \/ Exit

Spec == Init /\ [][Next]_vars

(***************************************************************************)
(* compute_layout over a range of geometries: main() stands at the call    *)
(* of compute_layout (line 481) with an explicit --options-list            *)
(***************************************************************************)
BoxSizes == {35, 500, 1000}
RowGaps == {0, 20}
ColGaps == {0, 50}

LayoutArgs ==
    {[DefaultArgs EXCEPT !.paper = p, !.num_questions = n,
                         !.options = [list |-> TRUE, counts |-> c],
                         !.columns = cols, !.force_columns = f,
                         !.row_gap_mm = rg, !.col_gap_mm = cg, !.box_size_mm = b] :
        p \in {"A4", "LETTER"}, n \in 1..MaxQuestions,
        c \in UNION {[1..m -> 1..MaxOptions] : m \in 1..MaxQuestions},
        cols \in 1..MaxColumns, f \in BOOLEAN,
        rg \in RowGaps, cg \in ColGaps, b \in BoxSizes}

InitLayout ==
    /\ args \in {a \in LayoutArgs : Len(a.options.counts) = a.num_questions}
    /\ merge_lib = TRUE
    /\ pc = "compute_layout"
    /\ err = "none"
    /\ per_q = args.options.counts
    /\ key_tokens = parse_answer_key(args.answer_key, args.num_questions)
    /\ layout = NoLayout
    /\ fs = <<>>
    /\ tmp_dir_ctx = NoTempDir
    /\ answer_paths = <<>>
    /\ cover_paths = <<>>
    /\ sid_int = 0

SpecLayout == InitLayout /\ [][ComputeLayout]_vars

LayoutReturned == layout # NoLayout

BoxIndices == 1..Len(layout.boxes)

\* C1 (Containment): every Box rectangle [x, x+w] x [y, y+h] of a returned
\* layout lies within [margin, page_width - margin] horizontally and
\* [margin, page_height - margin] vertically.
C1_Containment ==
    LayoutReturned =>
        \A i \in BoxIndices :
            LET b == layout.boxes[i]
                m == layout.marker.margin_pt * layout.scale
            IN  /\ m <= b.x_pt
                /\ b.x_pt + b.w_pt <= layout.page_width_pt * layout.scale - m
                /\ m <= b.y_pt
                /\ b.y_pt + b.h_pt <= layout.page_height_pt * layout.scale - m

\* two rectangles share interior points
Intersect(a, b) ==
    /\ a.x_pt < b.x_pt + b.w_pt
    /\ b.x_pt < a.x_pt + a.w_pt
    /\ a.y_pt < b.y_pt + b.h_pt
    /\ b.y_pt < a.y_pt + a.h_pt

\* C2 (Non-overlap): no two Box rectangles of a returned layout that belong
\* to different questions intersect.
C2_NonOverlap ==
    LayoutReturned =>
        \A i, j \in BoxIndices :
            layout.boxes[i].q # layout.boxes[j].q
                => ~Intersect(layout.boxes[i], layout.boxes[j])

\* C7 (Box completeness): a returned layout holds exactly one Box record for
\* every question q in 1..N and option index o with 0 <= o < count[q], and
\* no Box record for any other (q, o) pair.
C7_BoxCompleteness ==
    LayoutReturned =>
        /\ \A q \in 1..args.num_questions :
             \A o \in 0..(per_q[q] - 1) :
                Cardinality({i \in BoxIndices :
                    layout.boxes[i].q = q /\ layout.boxes[i].opt = o}) = 1
        /\ \A i \in BoxIndices :
             /\ layout.boxes[i].q \in 1..args.num_questions
             /\ layout.boxes[i].opt \in 0..(per_q[layout.boxes[i].q] - 1)

\* a returned layout whose last grid row is only partly filled
C7_Witness ==
    /\ LayoutReturned
    /\ args.force_columns
    /\ args.columns = 2
    /\ args.num_questions = 3
    /\ per_q = <<2, 1, 2>>
    /\ Len(layout.boxes) = 5

(***************************************************************************)
(* Decoding of letter labels: main() stands at the decoding of the key     *)
(* (line 487) with one question of n options and the label of option i,    *)
(* in upper or in lower case, as its answer-key token                      *)
(***************************************************************************)
LabelBoxSize == 20

\* str.lower()
lower(tok) ==
    [i \in 1..Len(tok) |-> IF tok[i] \in UpperChars THEN tok[i] + 26 ELSE tok[i]]

LabelArgs ==
    {[DefaultArgs EXCEPT !.options = [list |-> FALSE, counts |-> <<n>>],
                         !.box_size_mm = LabelBoxSize,
                         !.answer_key = <<tok>>] :
        n \in 1..MaxLabelCount,
        tok \in UNION {{option_labels(MaxLabelCount)[i], lower(option_labels(MaxLabelCount)[i])} :
                          i \in 1..MaxLabelCount}}

InitLabels ==
    /\ args \in {a \in LabelArgs :
                   \E i \in 1..a.options.counts[1] :
                      upper(a.answer_key[1]) = option_labels(MaxLabelCount)[i]}
    /\ merge_lib = TRUE
    /\ pc = "resolve_key"
    /\ err = "none"
    /\ per_q = parse_per_question_counts(args.options.counts, args.num_questions)
    /\ key_tokens = parse_answer_key(args.answer_key, args.num_questions)
    /\ layout = compute_layout(args.paper, args.num_questions, per_q, args.columns, args.force_columns, args.row_gap_mm, args.col_gap_mm, args.box_size_mm).layout
    /\ fs = <<>>
    /\ tmp_dir_ctx = NoTempDir
    /\ answer_paths = <<>>
    /\ cover_paths = <<>>
    /\ sid_int = 0

SpecLabels == InitLabels /\ [][ResolveKey]_vars

\* C9 (Answer-key round-trip): the token that spells the label
\* option_labels(n)[i] of a question with n options, in upper or lower case,
\* is decoded by main to i, and the labels of the n options are pairwise
\* distinct.
C9_RoundTrip ==
    (pc # "resolve_key" /\ Len(per_q) = 1) =>
        /\ pc = "validate_key"
        /\ \A i \in 0..(per_q[1] - 1) :
              LET label == option_labels(per_q[1])[i + 1]
              IN  (key_tokens[1] = label \/ key_tokens[1] = lower(label))
                      => layout.answer_key = <<i>>
        /\ \A i, j \in 1..per_q[1] :
              i # j => option_labels(per_q[1])[i] # option_labels(per_q[1])[j]

\* the lower-case two-letter label "ad" of option 29 of 30 has been decoded
C9_Witness ==
    /\ pc = "validate_key"
    /\ per_q = <<30>>
    /\ key_tokens = <<<<27, 30>>>>
    /\ layout.answer_key = <<29>>

(***************************************************************************)
(* Properties of the run of main()                                         *)
(***************************************************************************)
N == args.num_questions

\* the student identifiers of the requested range, in order
RangeIds == [i \in 1..args.student_id_count |-> Format03d(args.student_id_start + i - 1)]

Rendered == {p \in DOMAIN fs : p.name # "layout.json"}

\* the key has been parsed and one of its entries does not decode to an
\* index i with 0 <= i < option_count[question]
KeyEntryOutOfRange ==
    /\ Len(key_tokens) > 0
    /\ \E i \in 1..Len(key_tokens) :
          LET v == DecodeToken(key_tokens[i], per_q[i])
          IN  ~(0 <= v /\ v < per_q[i])

\* C3 (Key validation precedes rendering): with an answer-key entry out of
\* range the run never gets past the validation: it aborts with layout.json
\* unwritten and no sheet rendered.
C3_KeyValidation ==
    KeyEntryOutOfRange =>
        /\ pc \in {"compute_layout", "resolve_key", "validate_key", "failed", "exited"}
        /\ DOMAIN fs = {}
        /\ pc \in {"failed", "exited"} =>
              err \in {"SystemExit:Layout too tight.", "ValueError:index",
                       "ValueError:answer-key-out-of-range"}

\* the numeric entry 2 of a question with 2 options has been rejected
C3_Witness ==
    /\ pc = "failed"
    /\ err = "ValueError:answer-key-out-of-range"
    /\ \E i \in 1..Len(key_tokens) : key_tokens[i] = <<Digit(2)>> /\ per_q[i] = 2
    /\ DOMAIN fs = {}

\* C4 as stated (Answer-key length mismatch is fatal): a key whose number of
\* tokens differs from num_questions produces no rendered sheet.
C4_MismatchIsFatal ==
    Len(args.answer_key) # N => Rendered = {} /\ pc # "returned"

\* C4 as amended: a key of k >= 1 tokens is never rejected for its length:
\* parse_answer_key yields num_questions tokens, token i being raw[i mod k],
\* and the run goes on with them; only the empty key aborts the run, with
\* nothing rendered.
C4_KeyIsCycled ==
    /\ (pc # "parse" /\ Len(args.answer_key) = 0) =>
          pc \in {"failed", "exited"} /\ DOMAIN fs = {}
    /\ (pc # "parse" /\ Len(args.answer_key) > 0 /\ err # "ValueError:options-list") =>
          /\ Len(key_tokens) = N
          /\ \A i \in 0..(N - 1) :
                key_tokens[i + 1] = args.answer_key[(i % Len(args.answer_key)) + 1]
    /\ (pc = "failed" /\ err = "ZeroDivisionError:parse_answer_key") =>
          Len(args.answer_key) = 0

\* a run with one key token for two questions has rendered and returned
C4_Witness ==
    /\ pc = "returned"
    /\ Len(args.answer_key) = 1
    /\ N = 2
    /\ SolutionPath \in DOMAIN fs
    /\ Len(answer_paths) > 0

\* C5 (Guaranteed temp cleanup): when a run that created the temporary
\* directory and was not asked to keep it has ended, by return or by an
\* exception, the directory and the files in it are gone.
C5_TempCleanup ==
    (pc = "exited" /\ tmp_dir_ctx.created /\ ~args.keep_temp) =>
        /\ ~tmp_dir_ctx.exists
        /\ \A p \in DOMAIN fs : p.dir # "tmp"

\* a run whose merge failed after two sheets were rendered has ended
C5_Witness ==
    /\ pc = "exited"
    /\ err = "OSError:merge_pdfs"
    /\ tmp_dir_ctx.created
    /\ ~args.keep_temp
    /\ Len(answer_paths) = 2
    /\ ~tmp_dir_ctx.exists

\* the number of solid fills of question q on a page
FillsOf(page, q) == Cardinality({j \in 1..Len(page.filled) : page.filled[j].q = q})

\* C6 (Solution fidelity): the solution sheet fills exactly one box of every
\* question 1..N, the one whose option index is the answer-key entry of the
\* question; no student sheet has a filled box.
C6_SolutionFidelity ==
    /\ SolutionPath \in DOMAIN fs =>
          LET page == fs[SolutionPath][1]
          IN  /\ Len(fs[SolutionPath]) = 1
              /\ Len(page.filled) = N
              /\ \A q \in 1..N :
                    /\ FillsOf(page, q) = 1
                    /\ \A j \in 1..Len(page.filled) :
                          page.filled[j].q = q => page.filled[j].opt = layout.answer_key[q]
    /\ \A p \in DOMAIN fs :
          p.name \in {"answer_sheet", "answer_sheets_all.pdf"} =>
              \A j \in 1..Len(fs[p]) : fs[p][j].filled = <<>>

\* the solution of the key "0,2" and a student sheet have been rendered
C6_Witness ==
    /\ layout.answer_key = <<0, 2>>
    /\ SolutionPath \in DOMAIN fs
    /\ fs[SolutionPath][1].filled = <<[q |-> 1, opt |-> 0], [q |-> 2, opt |-> 2]>>
    /\ Len(answer_paths) > 0
    /\ answer_paths[1] \in DOMAIN fs

MergeDependencyError == "RuntimeError:merge_pdfs:no-merge-library"

\* C10 (Merge-dependency failure does not block pre-merge artifacts): without
\* a merge library the run fails in merge_pdfs, and only after the solution
\* and every student sheet of the range were rendered; when the error is
\* raised the solution document and the rendered per-student sheets exist.
C10_MergeDependency ==
    /\ (pc = "failed" /\ err = MergeDependencyError) =>
          /\ ~merge_lib
          /\ SolutionPath \in DOMAIN fs
          /\ args.student_id_count >= 1
          /\ Len(answer_paths) = args.student_id_count
          /\ \A i \in 1..args.student_id_count :
                /\ answer_paths[i] \in DOMAIN fs
                /\ fs[answer_paths[i]] = <<render_sheet(layout, RangeIds[i], FALSE)>>
                /\ args.per_student =>
                      Path("outdir", "answer_sheet", RangeIds[i]) \in DOMAIN fs
          /\ tmp_dir_ctx.exists
    /\ (~merge_lib /\ args.student_id_count >= 1) =>
          /\ pc \notin {"merge_covers", "cleanup", "returned"}
          /\ AnswersAllPath \notin DOMAIN fs
    /\ err = MergeDependencyError => ~merge_lib

\* the merge of two rendered sheets has failed for want of a merge library
C10_Witness ==
    /\ pc = "failed"
    /\ err = MergeDependencyError
    /\ args.student_id_count = 2
    /\ args.per_student
    /\ SolutionPath \in DOMAIN fs
    /\ answer_paths[2] \in DOMAIN fs

(***************************************************************************)
(* The column policy of compute_layout                                     *)
(***************************************************************************)
\* the result of the call of compute_layout made at line 481
LayoutCall ==
    compute_layout(args.paper, args.num_questions, per_q, args.columns, args.force_columns, args.row_gap_mm, args.col_gap_mm, args.box_size_mm)

\* the grid rows that hold a Box of the layout
RowsUsed ==
    Cardinality({layout.boxes[i].y_pt : i \in {j \in 1..Len(layout.boxes) : layout.boxes[j].opt = 0}})

\* C11 (Auto column policy fits the page): with force_columns off, a returned
\* layout uses at most the requested number of columns and its
\* ceil(num_questions / cols_used) rows are at most rows_fit; compute_layout
\* raises the infeasibility error exactly when rows_fit is zero.
C11_AutoFits ==
    (pc # "compute_layout" /\ Len(per_q) > 0 /\ ~args.force_columns) =>
        /\ (pc = "failed" /\ err = "SystemExit:Layout too tight.") <=> LayoutCall.rows_fit = 0
        /\ LayoutReturned =>
              /\ layout.scale <= args.columns
              /\ RowsUsed = CeilDiv(args.num_questions, layout.scale)
              /\ RowsUsed <= LayoutCall.rows_fit

====
